---- MODULE Spec2Model ----
(***************************************************************************)
(* Model of the PDF -> Flutter localization pipeline                       *)
(* (services/localizationService.ts, App.tsx).                             *)
(*                                                                         *)
(* Strings are sequences of one-character strings, so that trim(),         *)
(* toLowerCase(), includes() and sort() are computed and not assumed.      *)
(* Error messages are sequences of words; a bracketed status code is       *)
(* spelled character by character so that the regular expression           *)
(* /\[5\d{2}\]/ is computed on it.                                         *)
(***************************************************************************)
EXTENDS Integers, Sequences, FiniteSets, TLC

(***************************************************************************)
(* Bounds of the model                                                     *)
(***************************************************************************)
MaxPages == 6
MaxTextPages == 2
MaxRecs == 3
MaxMeta == 1
MaxOrphans == 1

(***************************************************************************)
(* Program constants                                                       *)
(***************************************************************************)
BATCH_SIZE == 5
TextThreshold == 5
ocrStartProgress == 30
ocrEndProgress == 90
ocrProgressRange == ocrEndProgress - ocrStartProgress

\* optional values: None, or Some(x)
None == <<>>
Some(x) == <<x>>

(***************************************************************************)
(* String primitives                                                       *)
(***************************************************************************)
IsSpace(c) == c \in {" ", "\t"}

RECURSIVE TrimStart(_)
TrimStart(s) ==
  IF s = <<>> THEN <<>>
  ELSE IF IsSpace(Head(s)) THEN TrimStart(Tail(s)) ELSE s

RECURSIVE TrimEnd(_)
TrimEnd(s) ==
  IF s = <<>> THEN <<>>
  ELSE IF IsSpace(s[Len(s)]) THEN TrimEnd(SubSeq(s, 1, Len(s) - 1)) ELSE s

Trim(s) == TrimEnd(TrimStart(s))

LowerChar(c) ==
  CASE c = "S" -> "s"
    [] c = "U" -> "u"
    [] c = "B" -> "b"
    [] c = "M" -> "m"
    [] c = "I" -> "i"
    [] c = "T" -> "t"
    [] c = "G" -> "g"
    [] c = "O" -> "o"
    [] OTHER -> c

ToLowerCase(s) == [i \in 1..Len(s) |-> LowerChar(s[i])]

\* String.prototype.includes on word sequences: pat occurs contiguously in s
Includes(s, pat) ==
  \E i \in 1..(Len(s) - Len(pat) + 1) : SubSeq(s, i, i + Len(pat) - 1) = pat

Digits == {"0", "1", "2", "3", "4", "5", "6", "7", "8", "9"}

\* seeded fault: the pattern matches the status code 500 only
Has5xxOnly500(s) ==
  \E i \in 1..(Len(s) - 4) :
     SubSeq(s, i, i + 4) = <<"[", "5", "0", "0", "]">>

\* /\[5\d{2}\]/.test(message)
Has5xx(s) ==
  \E i \in 1..(Len(s) - 4) :
     /\ s[i] = "["
     /\ s[i + 1] = "5"
     /\ s[i + 2] \in Digits
     /\ s[i + 3] \in Digits
     /\ s[i + 4] = "]"

\* Math.round of the non-negative rational num/den
Round(num, den) == (2 * num + den) \div (2 * den)

Min(a, b) == IF a < b THEN a ELSE b

RECURSIVE Flat(_)
Flat(ss) == IF ss = <<>> THEN <<>> ELSE Head(ss) \o Flat(Tail(ss))

(***************************************************************************)
(* Error messages                                                          *)
(***************************************************************************)
MsgApiFailed ==
  <<"API", "call", "failed.", "Check", "your", "API", "key", "and", "billing",
    "status.", "This", "may", "also", "be", "a", "temporary", "Google", "Cloud",
    "issue.">>
MsgUnknown ==
  <<"An", "unknown", "error", "occurred", "while", "generating",
    "translations.">>
MsgInvalidResponse ==
  <<"The", "AI", "returned", "an", "invalid", "response.", "Please", "try",
    "again.">>
MsgNoImages ==
  <<"Could", "not", "convert", "PDF", "to", "images", "for", "OCR",
    "processing.">>
MsgNoContext ==
  <<"Could", "not", "create", "canvas", "context", "for", "rendering", "PDF.">>
MsgNoText ==
  <<"No", "localizable", "text", "was", "found", "in", "the", "PDF.", "The",
    "file", "might", "be", "empty", "or", "contain", "only", "images", "with",
    "no", "recognizable", "text.">>
MsgKeyInvalid ==
  <<"Your", "API", "key", "is", "not", "valid.", "Please", "select", "a", "new",
    "one", "to", "continue.">>
MsgSelectFile == <<"Please", "select", "a", "file", "first.">>
MsgNotPdf == <<"Please", "upload", "a", "valid", "PDF", "file.">>
MsgNoMetadata == <<"Could", "not", "read", "PDF", "metadata.">>

\* failures of the translation backend (message of the rejected request)
Svc503 == <<"got", "status", "[", "5", "0", "3", "]", "Service", "Unavailable">>
SvcRpc == <<"Rpc", "failed", "due", "to", "xhr", "error">>
SvcKey == <<"API", "key", "not", "valid.">>
SvcQuota == <<"[", "4", "2", "9", "]", "Resource", "exhausted">>
ServiceFailures == {Svc503, SvcRpc, SvcKey, SvcQuota}

\* failures of the PDF library (message of the rejected promise)
PdfInvalid == <<"Invalid", "PDF", "structure.">>
PdfFailures == {PdfInvalid}

\* message of the SyntaxError raised by JSON.parse
MsgSyntax == <<"Unexpected", "token", "in", "JSON">>

\* message of the TypeError raised by a method call on undefined
MsgTypeError ==
  <<"Cannot", "read", "properties", "of", "undefined", "(reading", "'trim')">>

(***************************************************************************)
(* TranslationPair records and the values a model response can carry       *)
(***************************************************************************)
Pair(k, en, ar) == [key |-> k, en_text |-> en, ar_text |-> ar]

recSubmit ==
  Pair(<<"s", "u", "b", "m", "i", "t">>, <<"S", "u", "b", "m", "i", "t">>,
       <<"x">>)
recSubmitDup ==
  Pair(<<"s", "u", "b", "m", "i", "t", "_", "2">>,
       <<" ", "s", "U", "B", "m", "i", "t", " ">>, <<"y">>)
recBlank == Pair(<<"b">>, <<" ">>, <<"\t">>)
recGo == Pair(<<"g", "o">>, <<"G", "o">>, <<"z">>)
recArOnly == Pair(<<"a", "r">>, <<>>, <<" ", "s", "u", "b", "m", "i", "t">>)
recArCase ==
  Pair(<<"a", "r", "_", "2">>, <<" ">>, <<"S", "u", "b", "m", "i", "t">>)
\* the key of recSubmit given to another text by an independent call
recSend == Pair(<<"s", "u", "b", "m", "i", "t">>, <<"G", "o">>, <<"z">>)
\* a key that names an inherited property of every object
recProto ==
  Pair(<<"_", "_", "p", "r", "o", "t", "o", "_", "_">>, <<"O", "b", "j">>,
       <<"w">>)
\* texts with characters that JSON escapes
recQuote == Pair(<<"u", "p">>, <<"\"", "U", "p", "\\">>, <<"a", "\t", "b">>)

\* the value of a property that an object does not have
Undefined == <<"undefined">>
\* an element of a parsed response that lacks en_text and ar_text: the
\* response is cast to TranslationPair[] and nothing validates it
recNoText == Pair(<<"a">>, Undefined, Undefined)

\* what one page image can be answered with
PageLists ==
  {<<>>, <<recSubmit>>, <<recArOnly>>, <<recBlank>>, <<recSend>>,
   <<recNoText>>}

\* what the batch of extracted strings can be answered with
DirectLists ==
  {<<>>, <<recSubmit>>, <<recGo, recSubmit>>, <<recSubmit, recSubmitDup>>,
   <<recBlank>>, <<recGo, recSubmit, recSubmitDup>>, <<recNoText>>}

\* outcome of ai.models.generateContent: the request rejects with an Error
\* carrying `message`, or resolves with a response whose text either is the
\* JSON encoding of `value` or is not JSON at all
Rejected(m) == [kind |-> "reject", message |-> m, value |-> <<>>]
Garbage == [kind |-> "garbage", message |-> <<>>, value |-> <<>>]
Json(v) == [kind |-> "json", message |-> <<>>, value |-> v]

PageResponses ==
  {Rejected(m) : m \in ServiceFailures} \cup {Garbage}
    \cup {Json(v) : v \in PageLists}
DirectResponses ==
  {Rejected(m) : m \in ServiceFailures} \cup {Garbage}
    \cup {Json(v) : v \in DirectLists}

(***************************************************************************)
(* PDF documents: a page count and the text runs of the text layer         *)
(***************************************************************************)
tHello == <<"H", "e", "l", "l", "o">>
tSubmit == <<"S", "u", "b", "m", "i", "t">>
tOk == <<"O", "k">>
tOkPad == <<" ", "O", "k", " ">>
tGo == <<"G", "o">>
tNo == <<"N", "o">>
tUp == <<"U", "p">>
tOn == <<"O", "n">>
tIn == <<"I", "n">>
tHi == <<"H", "i">>
tA == <<"a">>
tBlank == <<" ", " ", " ">>

Scenario == <<tHello, tHello, tSubmit>>
Master == <<tOk, tGo, tOkPad, tA, tNo, tUp, tBlank, tOn, tIn, tHi>>
\* text layers with 2, 5, 6 and 7 unique strings after the filter
TextLayers ==
  {Scenario, SubSeq(Master, 1, 8), SubSeq(Master, 1, 9), Master}

Doc(n, items) == [numPages |-> n, items |-> items]
\* the scenario layer on up to MaxPages pages (scans, whose pages are sent as
\* images), every layer on up to MaxTextPages pages
Docs ==
  {Doc(n, Scenario) : n \in 1..MaxPages}
    \cup {Doc(n, t) : n \in 1..MaxTextPages, t \in TextLayers}

\* the text runs of page i (runs are dealt to the pages in turn)
RECURSIVE PageItemsFrom(_, _, _)
PageItemsFrom(doc, i, j) ==
  IF j > Len(doc.items) THEN <<>>
  ELSE (IF ((j - 1) % doc.numPages) + 1 = i THEN <<doc.items[j]>> ELSE <<>>)
         \o PageItemsFrom(doc, i, j + 1)
PageItems(doc, i) == PageItemsFrom(doc, i, 1)

InSeq(x, s) == \E i \in 1..Len(s) : s[i] = x

\* uniqueTexts.add over the runs of one page (a Set keeps insertion order)
RECURSIVE AddTexts(_, _)
AddTexts(uniqueTexts, items) ==
  IF items = <<>> THEN uniqueTexts
  ELSE LET trimmedText == Trim(Head(items))
       IN AddTexts(IF Len(trimmedText) > 1 /\ ~InSeq(trimmedText, uniqueTexts)
                     THEN Append(uniqueTexts, trimmedText)
                     ELSE uniqueTexts,
                   Tail(items))

(***************************************************************************)
(* Pure parts of the service                                               *)
(***************************************************************************)
Return(v) == [ok |-> TRUE, value |-> v, message |-> <<>>]
Throw(m) == [ok |-> FALSE, value |-> <<>>, message |-> m]

\* the catch clause of generateKeysAndTranslations
IsCriticalText(m) == Includes(m, <<"Rpc", "failed">>) \/ Has5xx(m)

\* the catch clause of processPage
IsCriticalPage(m) ==
  Includes(m, <<"Rpc", "failed">>) \/ Has5xx(m) \/ Includes(m, <<"API", "key">>)

\* seeded fault: the threshold test is not strict
UseDirectGe(uniqueTexts) == Len(uniqueTexts) >= TextThreshold

\* if (texts.length > 5)
UseDirect(uniqueTexts) == Len(uniqueTexts) > TextThreshold

\* the error caught around a request: the rejection of the request, or the
\* SyntaxError of JSON.parse
Caught(resp) ==
  IF resp.kind = "reject" THEN {resp.message}
  ELSE IF resp.kind = "garbage" THEN {MsgSyntax}
  ELSE {}

\* seeded fault: the text request swallows its errors as processPage does
TextOutcomeSwallow(resp) ==
  IF resp.kind = "json" THEN Return(resp.value) ELSE Return(<<>>)

\* generateKeysAndTranslations, from the outcome of its request on
TextOutcome(resp) ==
  IF resp.kind = "reject"
    THEN Throw(IF IsCriticalText(resp.message) THEN MsgApiFailed ELSE MsgUnknown)
  ELSE IF resp.kind = "garbage" THEN Throw(MsgInvalidResponse)
  ELSE Return(resp.value)

\* seeded fault: processPage skips the page on every error
PageOutcomeSwallowAll(resp) ==
  IF resp.kind = "json" THEN Return(resp.value) ELSE Return(<<>>)

\* seeded fault: processPage rethrows every error as critical
PageOutcomeRethrowAll(resp) ==
  IF resp.kind = "json" THEN Return(resp.value) ELSE Throw(MsgApiFailed)

\* processPage, from the outcome of its request on: the request and
\* JSON.parse are inside one try block
PageOutcome(resp) ==
  LET e == IF resp.kind = "reject" THEN resp.message ELSE MsgSyntax
  IN IF resp.kind = "json" THEN Return(resp.value)
     ELSE IF IsCriticalPage(e) THEN Throw(MsgApiFailed)
     ELSE Return(<<>>)

\* seeded fault: the identity is not lower-cased
UniqueKeyNoLower(item) ==
  LET en == Trim(item.en_text)
  IN IF en # <<>> THEN en ELSE Trim(item.ar_text)

\* seeded fault: identities taken from en_text and identities taken from
\* ar_text are kept apart
UniqueKeyPerField(item) ==
  LET en == ToLowerCase(Trim(item.en_text))
  IN IF en # <<>> THEN <<"en">> \o en
     ELSE IF Trim(item.ar_text) # <<>> THEN <<"ar">> \o Trim(item.ar_text)
     ELSE <<>>

\* const uniqueKey = item.en_text.trim().toLowerCase() || item.ar_text.trim()
UniqueKey(item) ==
  LET en == ToLowerCase(Trim(item.en_text))
  IN IF en # <<>> THEN en ELSE Trim(item.ar_text)

\* the forEach of the de-duplication throws a TypeError: some item lacks the
\* en_text that trim() is called on, or has a blank en_text and lacks ar_text
DedupThrows(allItems) ==
  \E i \in 1..Len(allItems) :
     \/ allItems[i].en_text = Undefined
     \/ /\ ToLowerCase(Trim(allItems[i].en_text)) = <<>>
        /\ allItems[i].ar_text = Undefined

\* uniqueTranslations (a Map, kept as the sequence of its entries in
\* insertion order) after allTranslations.forEach
RECURSIVE DedupInto(_, _)
DedupInto(uniqueTranslations, items) ==
  IF items = <<>> THEN uniqueTranslations
  ELSE LET item == Head(items)
           uniqueKey == UniqueKey(item)
           has == \E i \in 1..Len(uniqueTranslations) :
                     uniqueTranslations[i][1] = uniqueKey
       IN DedupInto(IF uniqueKey # <<>> /\ ~has
                      THEN Append(uniqueTranslations, <<uniqueKey, item>>)
                      ELSE uniqueTranslations,
                    Tail(items))

\* seeded fault: the entries are returned newest first
ConsolidateNewestFirst(allItems) ==
  LET m == DedupInto(<<>>, allItems)
  IN [i \in 1..Len(m) |-> m[Len(m) + 1 - i][2]]

\* Array.from(uniqueTranslations.values())
Consolidate(allItems) ==
  LET m == DedupInto(<<>>, allItems) IN [i \in 1..Len(m) |-> m[i][2]]

\* an own data property k of an object, kept as the sequence of its entries
\* in creation order, is created or overwritten (none of the keys that occur
\* is an array index, so creation order is enumeration order)
DataProp(obj, k, v) ==
  IF \E i \in 1..Len(obj) : obj[i][1] = k
    THEN [i \in 1..Len(obj) |-> IF obj[i][1] = k THEN <<k, v>> ELSE obj[i]]
    ELSE Append(obj, <<k, v>>)

\* the name of the accessor property that {} inherits from Object.prototype
ProtoName == <<"_", "_", "p", "r", "o", "t", "o", "_", "_">>

\* obj[k] = v on an object literal {}: the assignment to __proto__ runs the
\* inherited setter, which ignores a value that is neither an object nor null
ObjSet(obj, k, v) == IF k = ProtoName THEN obj ELSE DataProp(obj, k, v)

\* JSON.stringify of one character inside a string
JsonEscape(c) ==
  CASE c = "\"" -> <<"\\", "\"">>
    [] c = "\\" -> <<"\\", "\\">>
    [] c = "\t" -> <<"\\", "t">>
    [] c = "\n" -> <<"\\", "n">>
    [] OTHER -> <<c>>

\* JSON.stringify of a string
JsonQuote(str) ==
  <<"\"">> \o Flat([i \in 1..Len(str) |-> JsonEscape(str[i])]) \o <<"\"">>

\* the members of the object from entry i on, one per line, indented by two
RECURSIVE JsonMembers(_, _)
JsonMembers(obj, i) ==
  <<" ", " ">> \o JsonQuote(obj[i][1]) \o <<":", " ">> \o JsonQuote(obj[i][2])
    \o (IF i = Len(obj) THEN <<"\n">>
        ELSE <<",", "\n">> \o JsonMembers(obj, i + 1))

\* JSON.stringify(obj, null, 2) of an object of strings; a property whose
\* value is undefined is left out
JsonStringify(obj) ==
  LET own == SelectSeq(obj, LAMBDA e : e[2] # Undefined)
  IN IF own = <<>> THEN <<"{", "}">>
     ELSE <<"{", "\n">> \o JsonMembers(own, 1) \o <<"}">>

\* JSON.parse: the character an escape sequence stands for
JsonUnescape(c) ==
  CASE c = "t" -> "\t"
    [] c = "n" -> "\n"
    [] OTHER -> c

\* JSON.parse: the index of the first character from i on that is no space
RECURSIVE SkipWs(_, _)
SkipWs(text, i) ==
  IF i <= Len(text) /\ text[i] \in {" ", "\n", "\t"}
    THEN SkipWs(text, i + 1) ELSE i

\* JSON.parse: the string whose first character (after the quote) is at i
RECURSIVE ReadString(_, _, _)
ReadString(text, i, acc) ==
  IF text[i] = "\"" THEN [value |-> acc, next |-> i + 1]
  ELSE IF text[i] = "\\"
    THEN ReadString(text, i + 2, Append(acc, JsonUnescape(text[i + 1])))
  ELSE ReadString(text, i + 1, Append(acc, text[i]))

\* JSON.parse: the members of an object from index i on; every member
\* defines an own data property, __proto__ included, a repeated name
\* overwriting the value
RECURSIVE ReadMembers(_, _, _)
ReadMembers(text, i, obj) ==
  IF text[i] = "}" THEN obj
  ELSE LET name == ReadString(text, i + 1, <<>>)
           colon == SkipWs(text, name.next)
           val == ReadString(text, SkipWs(text, colon + 1) + 1, <<>>)
           sep == SkipWs(text, val.next)
           made == DataProp(obj, name.value, val.value)
       IN IF text[sep] = ","
            THEN ReadMembers(text, SkipWs(text, sep + 1), made)
            ELSE made

\* JSON.parse of the text of an object of strings
JsonParse(text) == ReadMembers(text, SkipWs(text, 2), <<>>)

\* UTF-16 code unit order of the characters that occur in keys
CharOrder ==
  <<"2", "_", "a", "b", "g", "i", "m", "o", "p", "r", "s", "t", "u">>
Code(c) == CHOOSE i \in 1..Len(CharOrder) : CharOrder[i] = c

\* a < b in the default order of Array.prototype.sort
RECURSIVE LexLess(_, _)
LexLess(a, b) ==
  IF b = <<>> THEN FALSE
  ELSE IF a = <<>> THEN TRUE
  ELSE IF Code(Head(a)) # Code(Head(b)) THEN Code(Head(a)) < Code(Head(b))
  ELSE LexLess(Tail(a), Tail(b))

\* sorted with x put at its place
RECURSIVE InsertSorted(_, _)
InsertSorted(x, sorted) ==
  IF sorted = <<>> THEN <<x>>
  ELSE IF LexLess(x, Head(sorted)) THEN <<x>> \o sorted
  ELSE <<Head(sorted)>> \o InsertSorted(x, Tail(sorted))

\* seeded fault: the keys are left in insertion order
SortKeysNone(keys) == keys

\* Array.from(allKeys).sort()
RECURSIVE SortKeys(_)
SortKeys(keys) ==
  IF keys = <<>> THEN <<>>
  ELSE InsertSorted(Head(keys), SortKeys(Tail(keys)))

\* allKeys.add(k) on a Set kept as the sequence of its members in insertion
\* order
SetAdd(set, k) == IF InSeq(k, set) THEN set ELSE Append(set, k)

RECURSIVE FillMaps(_, _)
FillMaps(maps, data) ==
  IF data = <<>> THEN maps
  ELSE LET item == Head(data)
       IN FillMaps([en |-> ObjSet(maps.en, item.key, item.en_text),
                    ar |-> ObjSet(maps.ar, item.key, item.ar_text),
                    allKeys |-> SetAdd(maps.allKeys, item.key)],
                   Tail(data))

File(name, c) == [filename |-> name, content |-> c]

\* seeded fault: the loader file is left out
generateFlutterFilesNoLoader(data) ==
  LET maps == FillMaps([en |-> <<>>, ar |-> <<>>, allKeys |-> <<>>], data)
  IN << File("ar.json", JsonStringify(maps.ar)),
        File("en.json", JsonStringify(maps.en)),
        File("locale_keys.g.dart", SortKeys(maps.allKeys)) >>

\* generateFlutterFiles: a JSON file is the text JSON.stringify returns; of
\* the two templates the interpolated data is kept: the keys the
\* key-constants file lists, in their order, and the two map strings of the
\* loader
generateFlutterFiles(data) ==
  LET maps == FillMaps([en |-> <<>>, ar |-> <<>>, allKeys |-> <<>>], data)
      sortedKeys == SortKeys(maps.allKeys)
      arMapString == JsonStringify(maps.ar)
      enMapString == JsonStringify(maps.en)
  IN << File("ar.json", JsonStringify(maps.ar)),
        File("en.json", JsonStringify(maps.en)),
        File("locale_keys.g.dart", sortedKeys),
        File("codegen_loader.dart", <<arMapString, enMapString>>) >>

\* the catch clause of handleProcessClick
IsKeyError(m) ==
  Includes(m, <<"API", "key">>)
    \/ Includes(m, <<"Requested", "entity", "was", "not", "found">>)

(***************************************************************************)
(* State                                                                   *)
(***************************************************************************)
VARIABLES
  file,              \* App: the selected File, if any
  isLoading,         \* App
  error,             \* App: the displayed message, if any
  generatedFiles,    \* App
  progress,          \* App: progress.percentage
  isKeyReady,        \* App
  pageCount,         \* App
  metaPending,       \* files whose getPdfPageCount call has not settled yet
  selectedType,      \* selectedFile.type of the last call of handleFileSelect
  pc,                \* where the run of processPdfForLocalization is suspended
  runFile,           \* the file the run was started on
  pageIdx,           \* loop variable i of the page loops
  texts,             \* uniqueTexts / texts
  imageParts,        \* imageParts.length
  canvas,            \* "none", "live" or "removed"
  batchStart,        \* batchStartIndex
  results,           \* the promises of the batch awaited by Promise.all
  allTranslations,
  localizationData,  \* the value assigned to localizationData, if any
  progressLog,       \* percentages passed to onProgress in this run, in order
  orphans,           \* page requests still in flight after their run was aborted
  did,               \* what the run has issued: "direct", "raster", "ocr"
  thrown,            \* message of the error the run rejected with, if any
  failures,          \* messages of the errors caught around the requests
  okRecords,         \* number of records parsed from page responses so far
  answers,           \* what processPage has returned so far for each page of
                     \* the batch awaited
  arg,               \* argument of the pure function under test
  ret                \* its result, if it has been applied

uiVars == <<file, isLoading, error, generatedFiles, progress, isKeyReady>>
loopVars == <<pageIdx, texts, imageParts, canvas, batchStart>>
ocrVars == <<results, allTranslations, orphans, okRecords, answers>>
pureVars == <<arg, ret>>
metaVars == <<pageCount, metaPending, selectedType>>
runVars ==
  <<pc, runFile, pageIdx, texts, imageParts, canvas, batchStart, results,
    allTranslations, localizationData, progressLog, orphans, did, thrown,
    failures, okRecords, answers>>
vars ==
  <<file, isLoading, error, generatedFiles, progress, isKeyReady, pageCount,
    metaPending, selectedType, pc, runFile,
    pageIdx, texts, imageParts, canvas, batchStart, results, allTranslations,
    localizationData, progressLog, orphans, did, thrown, failures, okRecords,
    answers, arg, ret>>

Last(s) == s[Len(s)]

\* onProgress(_, p) for each p of pcts, in order
Report(pcts) ==
  /\ progressLog' = progressLog \o pcts
  /\ progress' = IF pcts = <<>> THEN progress ELSE Last(pcts)

\* seeded fault: the API-key branch of the catch clause sets no message
FailNoMessage(m, pcts) ==
  /\ pc' = "failed"
  /\ thrown' = Some(m)
  /\ Report(pcts)
  /\ error' = IF IsKeyError(m) THEN error ELSE Some(m)
  /\ isKeyReady' = IF IsKeyError(m) THEN FALSE ELSE isKeyReady
  /\ isLoading' = FALSE
  /\ UNCHANGED <<file, generatedFiles, runFile>>

\* seeded fault: setIsLoading(false) is not in a finally clause
FailStillLoading(m, pcts) ==
  /\ pc' = "failed"
  /\ thrown' = Some(m)
  /\ Report(pcts)
  /\ error' = Some(IF IsKeyError(m) THEN MsgKeyInvalid ELSE m)
  /\ isKeyReady' = IF IsKeyError(m) THEN FALSE ELSE isKeyReady
  /\ UNCHANGED <<file, generatedFiles, runFile, isLoading>>

\* processPdfForLocalization rejects with message m; catch and finally of
\* handleProcessClick
Fail(m, pcts) ==
  /\ pc' = "failed"
  /\ thrown' = Some(m)
  /\ Report(pcts)
  /\ error' = Some(IF IsKeyError(m) THEN MsgKeyInvalid ELSE m)
  /\ isKeyReady' = IF IsKeyError(m) THEN FALSE ELSE isKeyReady
  /\ isLoading' = FALSE
  /\ UNCHANGED <<file, generatedFiles, runFile>>

\* seeded fault: the emptiness check of processPdfForLocalization is missing
FinishUnchecked(data, pcts) ==
  /\ localizationData' = Some(data)
  /\ pc' = "done"
  /\ progressLog' = progressLog \o pcts \o <<95>>
  /\ generatedFiles' = generateFlutterFiles(data)
  /\ progress' = 100
  /\ isLoading' = FALSE
  /\ UNCHANGED <<file, error, isKeyReady, runFile, thrown>>

\* the tail of processPdfForLocalization once localizationData is assigned,
\* and the continuation of handleProcessClick
Finish(data, pcts) ==
  /\ localizationData' = Some(data)
  /\ IF Len(data) = 0
       THEN Fail(MsgNoText, pcts)
       ELSE /\ pc' = "done"
            /\ progressLog' = progressLog \o pcts \o <<95>>
            /\ generatedFiles' = generateFlutterFiles(data)
            /\ progress' = 100
            /\ isLoading' = FALSE
            /\ UNCHANGED <<file, error, isKeyReady, runFile, thrown>>

\* seeded fault: every remaining page is requested at once
NewBatchAll(i, n) ==
  [k \in 1..(n - i) |-> [state |-> "pending", value |-> <<>>]]

\* the promises created by batch.map(processPage) for the batch at index i
NewBatch(i, n) ==
  [k \in 1..(Min(i + BATCH_SIZE, n) - i) |-> [state |-> "pending", value |-> <<>>]]

\* Math.round(ocrStartProgress + (batchStartIndex / length) * ocrProgressRange)
BatchProgress(i, n) == Round(ocrStartProgress * n + i * ocrProgressRange, n)

\* Math.round((i / pdf.numPages) * 30)
PageProgress(i, n) == Round(i * 30, n)

(***************************************************************************)
(* One run, from the call of handleProcessClick on                         *)
(***************************************************************************)
InitRun ==
  \E d \in Docs :
    /\ file = Some(d)
    /\ isLoading = TRUE
    /\ error = None
    /\ generatedFiles = <<>>
    /\ progress = 5
    /\ isKeyReady = TRUE
    /\ pageCount = d.numPages
    /\ metaPending = <<>>
    /\ selectedType = "application/pdf"
    /\ pc = "extractLoad"
    /\ runFile = d
    /\ pageIdx = 0
    /\ texts = <<>>
    /\ imageParts = 0
    /\ canvas = "none"
    /\ batchStart = 0
    /\ results = <<>>
    /\ allTranslations = <<>>
    /\ localizationData = None
    /\ progressLog = <<5>>
    /\ orphans = 0
    /\ did = {}
    /\ thrown = None
    /\ failures = {}
    /\ okRecords = 0
    /\ answers = <<>>
    /\ arg = <<>>
    /\ ret = None

\* extractTextFromPdf: file.arrayBuffer() and getDocument() resolve
ExtractLoadOk ==
  /\ pc = "extractLoad"
  /\ pc' = "extractPage"
  /\ pageIdx' = 1
  /\ UNCHANGED <<uiVars, runFile, texts, imageParts, canvas, batchStart, ocrVars,
                 localizationData, progressLog, did, thrown, failures, pureVars,
                 metaVars>>

\* extractTextFromPdf: the document cannot be loaded
ExtractLoadFail ==
  /\ pc = "extractLoad"
  /\ \E m \in PdfFailures : Fail(m, <<>>)
  /\ UNCHANGED <<loopVars, ocrVars, localizationData, did, failures, pureVars,
                 metaVars>>

\* extractTextFromPdf: getPage(i) and getTextContent() resolve; after the last
\* page the controller chooses its path and runs up to the next await
ExtractPageOk ==
  /\ pc = "extractPage"
  /\ LET uniqueTexts == AddTexts(texts, PageItems(runFile, pageIdx))
     IN /\ texts' = uniqueTexts
        /\ IF pageIdx < runFile.numPages
             THEN /\ pageIdx' = pageIdx + 1
                  /\ UNCHANGED <<pc, progressLog, progress, did>>
             ELSE IF UseDirect(uniqueTexts)
               THEN /\ pc' = "direct"
                    /\ did' = did \cup {"direct"}
                    /\ Report(<<50>>)
                    /\ UNCHANGED pageIdx
               ELSE /\ pc' = "rasterLoad"
                    /\ Report(<<10>>)
                    /\ UNCHANGED <<pageIdx, did>>
  /\ UNCHANGED <<file, isLoading, error, generatedFiles, isKeyReady, runFile,
                 imageParts, canvas, batchStart, ocrVars, localizationData,
                 thrown, failures, pureVars,
                 metaVars>>

\* extractTextFromPdf: a page or its text content cannot be fetched
ExtractPageFail ==
  /\ pc = "extractPage"
  /\ \E m \in PdfFailures : Fail(m, <<>>)
  /\ UNCHANGED <<loopVars, ocrVars, localizationData, did, failures, pureVars,
                 metaVars>>

\* generateKeysAndTranslations: the request settles
DirectResolve ==
  /\ pc = "direct"
  /\ \E resp \in DirectResponses :
       LET out == TextOutcome(resp)
       IN /\ failures' = failures \cup Caught(resp)
          /\ IF out.ok
               THEN Finish(out.value, <<>>)
               ELSE Fail(out.message, <<>>) /\ UNCHANGED localizationData
  /\ UNCHANGED <<loopVars, ocrVars, did, pureVars,
                 metaVars>>

\* convertPdfPagesToImageParts: the document is loaded, the canvas and its
\* context are created, and the loop reaches the await of its first page
RasterLoadOk ==
  /\ pc = "rasterLoad"
  /\ pc' = "rasterPage"
  /\ canvas' = "live"
  /\ pageIdx' = 1
  /\ did' = did \cup {"raster"}
  /\ Report(<<PageProgress(1, runFile.numPages)>>)
  /\ UNCHANGED <<file, isLoading, error, generatedFiles, isKeyReady, runFile,
                 texts, imageParts, batchStart, ocrVars, localizationData,
                 thrown, failures, pureVars,
                 metaVars>>

\* convertPdfPagesToImageParts: canvas.getContext('2d') returns null
RasterNoContext ==
  /\ pc = "rasterLoad"
  /\ canvas' = "live"
  /\ Fail(MsgNoContext, <<>>)
  /\ UNCHANGED <<pageIdx, texts, imageParts, batchStart, ocrVars,
                 localizationData, did, failures, pureVars,
                 metaVars>>

\* convertPdfPagesToImageParts: the document cannot be loaded
RasterLoadFail ==
  /\ pc = "rasterLoad"
  /\ \E m \in PdfFailures : Fail(m, <<>>)
  /\ UNCHANGED <<loopVars, ocrVars, localizationData, did, failures, pureVars,
                 metaVars>>

\* convertPdfPagesToImageParts: page i is fetched and rendered; hasData tells
\* whether the data URL of the canvas carries base64 data. After the last page
\* the canvas is removed and generateLocalizationFromPdfImages issues the
\* requests of its first batch
RasterPageOk ==
  /\ pc = "rasterPage"
  /\ \E hasData \in BOOLEAN :
       LET n == imageParts + (IF hasData THEN 1 ELSE 0)
       IN /\ imageParts' = n
          /\ IF pageIdx < runFile.numPages
               THEN /\ pageIdx' = pageIdx + 1
                    /\ Report(<<PageProgress(pageIdx + 1, runFile.numPages)>>)
                    /\ UNCHANGED <<pc, canvas, results, did, thrown, error,
                                   isKeyReady, isLoading, answers>>
               ELSE /\ canvas' = "removed"
                    /\ UNCHANGED pageIdx
                    /\ IF n = 0
                         THEN /\ Fail(MsgNoImages, <<>>)
                              /\ UNCHANGED <<results, did, answers>>
                         ELSE /\ pc' = "ocrBatch"
                              /\ results' = NewBatch(0, n)
                              /\ answers' = [i \in 1..Len(results') |-> None]
                              /\ did' = did \cup {"ocr"}
                              /\ Report(<<BatchProgress(0, n)>>)
                              /\ UNCHANGED <<thrown, error, isKeyReady,
                                             isLoading>>
  /\ UNCHANGED <<file, generatedFiles, runFile, texts, batchStart,
                 allTranslations, orphans, okRecords, localizationData,
                 failures, pureVars,
                 metaVars>>

\* convertPdfPagesToImageParts: a page cannot be fetched or rendered
RasterPageFail ==
  /\ pc = "rasterPage"
  /\ \E m \in PdfFailures : Fail(m, <<>>)
  /\ UNCHANGED <<loopVars, ocrVars, localizationData, did, failures, pureVars,
                 metaVars>>

Pending(rs) == {j \in 1..Len(rs) : rs[j].state = "pending"}
Values(rs) == [j \in 1..Len(rs) |-> rs[j].value]

\* seeded fault: the results are collected in the order the requests complete
SettleInArrivalOrder(rs, k, v) ==
  [rs EXCEPT ![Len(rs) - Cardinality(Pending(rs)) + 1] =
               [state |-> "fulfilled", value |-> v]]

\* the promise of batch.map(processPage) at index k fulfils with v; the array
\* Promise.all resolves with has the order of batchPromises
Settle(rs, k, v) == [rs EXCEPT ![k] = [state |-> "fulfilled", value |-> v]]

\* processPage of page k of the batch settles. A rejection rejects
\* Promise.all at once; the last fulfilment resolves it, and the orchestrator
\* goes on to the next batch or to consolidation
PageResolve ==
  /\ pc = "ocrBatch"
  /\ \E k \in Pending(results), resp \in PageResponses :
       LET out == PageOutcome(resp)
           settled == Settle(results, k, out.value)
           next == batchStart + BATCH_SIZE
           all == allTranslations \o Flat(Values(settled))
       IN /\ failures' = failures \cup Caught(resp)
          /\ IF ~out.ok
               THEN /\ Fail(out.message, <<>>)
                    /\ orphans' = orphans + Cardinality(Pending(results) \ {k})
                    /\ results' = <<>>
                    /\ answers' = <<>>
                    /\ UNCHANGED <<allTranslations, batchStart, okRecords,
                                   localizationData>>
               ELSE /\ okRecords' = okRecords + Len(out.value)
                    /\ UNCHANGED orphans
                    /\ IF Pending(settled) # {}
                         THEN /\ results' = settled
                              /\ answers' = [answers EXCEPT
                                               ![k] = Some(out.value)]
                              /\ UNCHANGED <<allTranslations, batchStart,
                                             localizationData, pc, thrown, error,
                                             isKeyReady, isLoading, progressLog,
                                             progress, file, generatedFiles,
                                             runFile>>
                         ELSE /\ allTranslations' = all
                              /\ IF next < imageParts
                                   THEN /\ batchStart' = next
                                        /\ results' = NewBatch(next, imageParts)
                                        /\ answers' =
                                             [i \in 1..Len(results') |-> None]
                                        /\ Report(<<BatchProgress(next, imageParts)>>)
                                        /\ UNCHANGED <<localizationData, pc,
                                                       thrown, error, isKeyReady,
                                                       isLoading, file,
                                                       generatedFiles, runFile>>
                                   ELSE /\ results' = <<>>
                                        /\ answers' = <<>>
                                        /\ UNCHANGED batchStart
                                        /\ IF DedupThrows(all)
                                             THEN /\ Fail(MsgTypeError, <<90>>)
                                                  /\ UNCHANGED localizationData
                                             ELSE Finish(Consolidate(all), <<90>>)
  /\ UNCHANGED <<pageIdx, texts, imageParts, canvas, did, pureVars,
                 metaVars>>

\* a request of an aborted batch settles: processPage returns or throws into
\* a promise nobody awaits any more
LateResolve ==
  /\ orphans > 0
  /\ orphans' = orphans - 1
  /\ UNCHANGED <<uiVars, pc, runFile, loopVars, results, allTranslations,
                 localizationData, progressLog, did, thrown, failures,
                 okRecords, answers, pureVars,
                 metaVars>>

NextRun ==
  \/ ExtractLoadOk
  \/ ExtractLoadFail
  \/ ExtractPageOk
  \/ ExtractPageFail
  \/ DirectResolve
  \/ RasterLoadOk
  \/ RasterNoContext
  \/ RasterLoadFail
  \/ RasterPageOk
  \/ RasterPageFail
  \/ PageResolve
  \/ LateResolve

Spec == InitRun /\ [][NextRun]_vars

\* one run in which every external call (PDF load, page text, page render,
\* translation request) eventually resolves or rejects, so that the
\* continuation waiting for it eventually runs
\* started on a scan whose pages make two batches, or on a text PDF
DocsLive == {Doc(BATCH_SIZE + 1, Scenario), Doc(1, SubSeq(Master, 1, 9))}
InitLive == InitRun /\ runFile \in DocsLive
SpecLive == InitLive /\ [][NextRun]_vars /\ WF_vars(NextRun)

(***************************************************************************)
(* The App: user events around the runs                                    *)
(***************************************************************************)
\* the files the user picks from: a two-page scan and a one-page text PDF
DocsUI == {Doc(2, Scenario), Doc(1, SubSeq(Master, 1, 9))}

RemoveAt(s, k) == SubSeq(s, 1, k - 1) \o SubSeq(s, k + 1, Len(s))

InitApp ==
  /\ file = None
  /\ isLoading = FALSE
  /\ error = None
  /\ generatedFiles = <<>>
  /\ progress = 0
  /\ isKeyReady \in BOOLEAN
  /\ pageCount = 0
  /\ metaPending = <<>>
  /\ selectedType = ""
  /\ pc = "idle"
  /\ runFile = Doc(1, <<>>)
  /\ pageIdx = 0
  /\ texts = <<>>
  /\ imageParts = 0
  /\ canvas = "none"
  /\ batchStart = 0
  /\ results = <<>>
  /\ allTranslations = <<>>
  /\ localizationData = None
  /\ progressLog = <<>>
  /\ orphans = 0
  /\ did = {}
  /\ thrown = None
  /\ failures = {}
  /\ okRecords = 0
  /\ answers = <<>>
  /\ arg = <<>>
  /\ ret = None

\* resetState
ResetStateEffect ==
  /\ file' = None
  /\ pageCount' = 0
  /\ error' = None
  /\ generatedFiles' = <<>>
  /\ progress' = 0

\* handleFileSelect with a PDF, up to the await of getPdfPageCount; the file
\* input and the drop target are rendered only while no file is selected
HandleFileSelect ==
  /\ isKeyReady
  /\ file = None
  /\ Len(metaPending) < MaxMeta
  /\ \E d \in DocsUI :
       /\ file' = Some(d)
       /\ metaPending' = Append(metaPending, d)
  /\ selectedType' = "application/pdf"
  /\ pageCount' = 0
  /\ error' = None
  /\ generatedFiles' = <<>>
  /\ progress' = 0
  /\ UNCHANGED <<isLoading, isKeyReady, runVars, pureVars>>

\* handleFileSelect with a file that is no PDF: setError, then resetState
HandleFileSelectNotPdf ==
  /\ isKeyReady
  /\ file = None
  /\ ResetStateEffect
  /\ selectedType' = "image/png"
  /\ UNCHANGED <<isLoading, isKeyReady, metaPending, runVars, pureVars>>

\* handleFileSelect: getPdfPageCount resolves
PageCountResolve ==
  /\ \E k \in 1..Len(metaPending) :
       /\ pageCount' = metaPending[k].numPages
       /\ metaPending' = RemoveAt(metaPending, k)
  /\ UNCHANGED <<file, isLoading, error, generatedFiles, progress, isKeyReady,
                 selectedType, runVars, pureVars>>

\* handleFileSelect: getPdfPageCount rejects: setError, then resetState
PageCountReject ==
  /\ \E k \in 1..Len(metaPending) : metaPending' = RemoveAt(metaPending, k)
  /\ ResetStateEffect
  /\ UNCHANGED <<isLoading, isKeyReady, selectedType, runVars, pureVars>>

\* the clear button of the file preview (onClear = resetState)
ResetState ==
  /\ isKeyReady
  /\ file # None
  /\ ResetStateEffect
  /\ UNCHANGED <<isLoading, isKeyReady, metaPending, selectedType, runVars,
                 pureVars>>

\* seeded fault: the Generate button stays rendered while a run is loading
HandleProcessClickWhileLoading ==
  /\ isKeyReady
  /\ file # None
  /\ generatedFiles = <<>>
  /\ orphans < MaxOrphans
  /\ isLoading' = TRUE
  /\ error' = None
  /\ generatedFiles' = <<>>
  /\ progress' = 5
  /\ pc' = "extractLoad"
  /\ runFile' = file[1]
  /\ pageIdx' = 0
  /\ texts' = <<>>
  /\ imageParts' = 0
  /\ canvas' = "none"
  /\ batchStart' = 0
  /\ results' = <<>>
  /\ allTranslations' = <<>>
  /\ localizationData' = None
  /\ progressLog' = <<5>>
  /\ did' = {}
  /\ thrown' = None
  /\ failures' = {}
  /\ okRecords' = 0
  /\ answers' = <<>>
  /\ UNCHANGED <<file, isKeyReady, orphans, metaVars, pureVars>>

\* handleProcessClick up to the first await of processPdfForLocalization; the
\* button is rendered while a file is selected, nothing is loading and no
\* files are shown
HandleProcessClick ==
  /\ isKeyReady
  /\ file # None
  /\ ~isLoading
  /\ generatedFiles = <<>>
  /\ orphans < MaxOrphans
  /\ isLoading' = TRUE
  /\ error' = None
  /\ generatedFiles' = <<>>
  /\ progress' = 5
  /\ pc' = "extractLoad"
  /\ runFile' = file[1]
  /\ pageIdx' = 0
  /\ texts' = <<>>
  /\ imageParts' = 0
  /\ canvas' = "none"
  /\ batchStart' = 0
  /\ results' = <<>>
  /\ allTranslations' = <<>>
  /\ localizationData' = None
  /\ progressLog' = <<5>>
  /\ did' = {}
  /\ thrown' = None
  /\ failures' = {}
  /\ okRecords' = 0
  /\ answers' = <<>>
  /\ UNCHANGED <<file, isKeyReady, orphans, metaVars, pureVars>>

\* handleSelectKey, on the screen shown while no key is ready
HandleSelectKey ==
  /\ ~isKeyReady
  /\ isKeyReady' = TRUE
  /\ error' = None
  /\ UNCHANGED <<file, isLoading, generatedFiles, progress, metaVars, runVars,
                 pureVars>>

NextApp ==
  \/ HandleFileSelect
  \/ HandleFileSelectNotPdf
  \/ PageCountResolve
  \/ PageCountReject
  \/ ResetState
  \/ HandleProcessClick
  \/ HandleSelectKey
  \/ NextRun

SpecUI == InitApp /\ [][NextApp]_vars

(***************************************************************************)
(* The pure functions of the service applied to bounded inputs             *)
(***************************************************************************)
RecPool ==
  {recSubmit, recSubmitDup, recBlank, recGo, recArOnly, recArCase, recSend,
   recProto, recQuote}
SeqsUpTo(S, n) == UNION {[1..k -> S] : k \in 0..n}

InitPure ==
  /\ arg \in SeqsUpTo(RecPool, MaxRecs)
  /\ ret = None
  /\ pc = "pure"
  /\ file = None
  /\ isLoading = FALSE
  /\ error = None
  /\ generatedFiles = <<>>
  /\ progress = 0
  /\ isKeyReady = TRUE
  /\ pageCount = 0
  /\ metaPending = <<>>
  /\ selectedType = ""
  /\ runFile = Doc(1, <<>>)
  /\ pageIdx = 0
  /\ texts = <<>>
  /\ imageParts = 0
  /\ canvas = "none"
  /\ batchStart = 0
  /\ results = <<>>
  /\ allTranslations = <<>>
  /\ localizationData = None
  /\ progressLog = <<>>
  /\ orphans = 0
  /\ did = {}
  /\ thrown = None
  /\ failures = {}
  /\ okRecords = 0
  /\ answers = <<>>

\* the de-duplication of generateLocalizationFromPdfImages applied to arg
ApplyConsolidate ==
  /\ pc = "pure"
  /\ pc' = "consolidated"
  /\ ret' = Some(Consolidate(arg))
  /\ UNCHANGED <<uiVars, runFile, loopVars, ocrVars, localizationData,
                 progressLog, did, thrown, failures, arg, metaVars>>

\* the de-duplication applied once more, to its own output
ReapplyConsolidate ==
  /\ pc = "consolidated"
  /\ pc' = "reconsolidated"
  /\ ret' = Some(Consolidate(ret[1]))
  /\ UNCHANGED <<uiVars, runFile, loopVars, ocrVars, localizationData,
                 progressLog, did, thrown, failures, arg, metaVars>>

\* generateFlutterFiles applied to arg
ApplyGenerateFlutterFiles ==
  /\ pc = "pure"
  /\ pc' = "materialized"
  /\ generatedFiles' = generateFlutterFiles(arg)
  /\ UNCHANGED <<file, isLoading, error, progress, isKeyReady, runFile,
                 loopVars, ocrVars, localizationData, progressLog, did, thrown,
                 failures, pureVars, metaVars>>

NextPure ==
  \/ ApplyConsolidate
  \/ ReapplyConsolidate
  \/ ApplyGenerateFlutterFiles

SpecPure == InitPure /\ [][NextPure]_vars

(***************************************************************************)
(* Properties                                                              *)
(***************************************************************************)
\* number of unique trimmed text runs of length > 1 in the text layer
UniqueCount(doc) ==
  Cardinality({Trim(doc.items[j]) :
                 j \in {i \in 1..Len(doc.items) : Len(Trim(doc.items[i])) > 1}})

\* the controller has chosen its path (it reports 50 or 10 when it does)
PathChosen == Len(progressLog) >= 2

\* C1: the path is chosen by the number of unique extracted strings alone:
\* more than 5 takes the direct text request and never rasterizes or issues a
\* page request; 5 or fewer takes the OCR path and never issues the direct
\* request.
C1_BranchByCount ==
  /\ ~PathChosen => did = {}
  /\ PathChosen =>
       IF UniqueCount(runFile) > 5
         THEN /\ progressLog[2] = 50
              /\ did = {"direct"}
              /\ canvas = "none"
              /\ imageParts = 0
              /\ results = <<>>
              /\ pc \in {"direct", "done", "failed"}
         ELSE /\ progressLog[2] = 10
              /\ "direct" \notin did
              /\ pc \in {"rasterLoad", "rasterPage", "ocrBatch", "done", "failed"}

\* C1 witness: exactly 5 unique strings, and the page requests were issued
C1_Witness == UniqueCount(runFile) = 5 /\ "ocr" \in did

\* C2: the percentages passed to the progress callback in one run, followed
\* by the completion percentage, never decrease and lie in 0..100.
C2_ProgressMonotone ==
  LET log == progressLog \o (IF pc = "done" THEN <<progress>> ELSE <<>>)
  IN /\ \A i \in 1..Len(log) : log[i] \in 0..100
     /\ \A i, j \in 1..Len(log) : i < j => log[i] <= log[j]

\* identity of a record as the data model states it
Identity(item) ==
  IF Trim(item.en_text) = <<>>
    THEN Trim(item.ar_text)
    ELSE ToLowerCase(Trim(item.en_text))

NoSharedIdentity(data) ==
  \A i, j \in 1..Len(data) : i < j => Identity(data[i]) # Identity(data[j])

\* C3: the list handed to generateFlutterFiles, on either path, holds no two
\* records with the same normalized identity.
C3_NoSharedIdentity == pc = "done" => NoSharedIdentity(localizationData[1])

\* C3 on the OCR path alone, where the orchestrator de-duplicates
C3_OcrNoSharedIdentity ==
  (pc = "done" /\ "ocr" \in did) => NoSharedIdentity(localizationData[1])

\* the message contains a bracketed three-digit code starting with 5
Bracketed5xx(m) ==
  \E a, b \in Digits : Includes(m, <<"[", "5", a, b, "]">>)

\* C4: a translation request that fails with a bracketed 5xx code in its
\* message is classified critical, aborts the run, and no files are produced.
C4_5xxAborts ==
  (\E m \in failures : Bracketed5xx(m)) =>
     /\ pc = "failed"
     /\ thrown = Some(MsgApiFailed)
     /\ generatedFiles = <<>>

\* C4 witness: a page request failed with [503] and the run is aborted
C4_Witness == Svc503 \in failures /\ "ocr" \in did /\ pc = "failed"

SumLen(rs) == Len(Flat(Values(rs)))

\* C5: on the OCR path non-critical failures of page requests never abort the
\* run (it can fail only once every batch has been processed and consolidation
\* has begun), and every record parsed from a page response is aggregated.
C5_TransientSkipped ==
  "ocr" \in did =>
     /\ (\A m \in failures : ~IsCriticalPage(m)) =>
           /\ thrown \in {None, Some(MsgNoText), Some(MsgTypeError)}
           /\ pc = "failed" =>
                 (Last(progressLog) = 90 /\ batchStart + 5 >= imageParts)
     /\ thrown # Some(MsgApiFailed) =>
           Len(allTranslations) + SumLen(results) = okRecords

\* C5 witness: a page of the first batch failed non-critically, the records of
\* its siblings are aggregated and the second batch has been started
C5_Witness ==
  /\ pc = "ocrBatch"
  /\ batchStart = BATCH_SIZE
  /\ Pending(results) = 1..Len(results)
  /\ SvcQuota \in failures
  /\ allTranslations # <<>>

\* C6: on the direct path any error of the request or of parsing its response
\* fails the run with that error; there is no fall-back to OCR and no files.
C6_DirectErrorFatal ==
  ("direct" \in did /\ failures # {}) =>
     /\ pc = "failed"
     /\ thrown \in {Some(MsgApiFailed), Some(MsgUnknown), Some(MsgInvalidResponse)}
     /\ did = {"direct"}
     /\ localizationData = None
     /\ generatedFiles = <<>>

\* C6 witness: the response of the direct request was not JSON
C6_Witness == "direct" \in did /\ MsgSyntax \in failures /\ pc = "failed"

\* C7: a step that ends the run in failure leaves no generated files and
\* exactly one non-empty error message, and loading has ended.
C7_FailureSurface ==
  [][(pc # "failed" /\ pc' = "failed") =>
       /\ generatedFiles' = <<>>
       /\ Len(error') = 1
       /\ error'[1] # <<>>
       /\ ~isLoading']_vars

\* C7 witness: the user cleared the file while the run was in progress, and
\* the run then failed with the critical error
C7_Witness ==
  /\ pc = "failed"
  /\ file = None
  /\ error = Some(MsgKeyInvalid)
  /\ generatedFiles = <<>>

FileNames(fs) == {fs[i].filename : i \in 1..Len(fs)}

\* C8: a successful run yields exactly four files with the four fixed names.
C8_FourFiles ==
  pc = "done" =>
     /\ Len(generatedFiles) = 4
     /\ FileNames(generatedFiles) =
          {"en.json", "ar.json", "locale_keys.g.dart", "codegen_loader.dart"}

\* C8 witness: a successful run over three records
C8_Witness == pc = "done" /\ Len(localizationData[1]) = 3

\* C9: an empty consolidated set fails the run with the no-localizable-text
\* error and generateFlutterFiles is not invoked.
C9_EmptyFails ==
  /\ localizationData = Some(<<>>) =>
       /\ pc = "failed"
       /\ thrown = Some(MsgNoText)
       /\ generatedFiles = <<>>
  /\ pc = "done" => (localizationData # None /\ localizationData[1] # <<>>)
  /\ ("ocr" \in did /\ pc \in {"done", "failed"} /\ thrown # Some(MsgApiFailed)
        /\ \A i \in 1..Len(allTranslations) :
              Identity(allTranslations[i]) = <<>>) =>
       thrown = Some(MsgNoText)

\* C9 witness: pages answered, one failed, de-duplication dropped everything
C9_Witness ==
  /\ "ocr" \in did
  /\ localizationData = Some(<<>>)
  /\ allTranslations # <<>>
  /\ failures # {}

\* positions of the records that carry an identity and are the first to carry it
FirstOf(items) ==
  {i \in 1..Len(items) :
     /\ Identity(items[i]) # <<>>
     /\ \A j \in 1..(i - 1) : Identity(items[j]) # Identity(items[i])}

\* the records at the positions of I, in their order
Pick(items, I) ==
  [n \in 1..Cardinality(I) |->
     items[CHOOSE i \in I : Cardinality({j \in I : j <= i}) = n]]

\* C10: consolidation keeps exactly the first record of every identity that
\* occurs among the records, in encounter order, and drops every later record
\* of the same identity (a record whose en_text and ar_text are both blank
\* carries no identity and is not kept).
C10_KeepsFirstOfIdentity ==
  pc = "consolidated" => ret = Some(Pick(arg, FirstOf(arg)))

\* C10 witness: Submit in two case/space variants yields one record
C10_Witness ==
  /\ pc = "consolidated"
  /\ arg = <<recSubmit, recGo, recSubmitDup>>
  /\ ret = Some(<<recSubmit, recGo>>)

\* C11: de-duplication is idempotent: applied to its own output it returns
\* the same records in the same order.
C11_DedupIdempotent ==
  [][(pc = "consolidated" /\ pc' = "reconsolidated") => ret' = ret]_vars

\* C11 witness: the second application ran on the two records that the first
\* had kept of three
C11_Witness ==
  /\ pc = "reconsolidated"
  /\ arg = <<recArOnly, recGo, recSubmit>>
  /\ ret = Some(<<recArOnly, recGo>>)

DistinctKeys(data) ==
  \A i, j \in 1..Len(data) : i < j => data[i].key # data[j].key

\* C12: in the final set that the OCR path hands to generateFlutterFiles no
\* two records carry the same key, and en.json and ar.json hold one entry
\* per record.
C12_KeysUnique ==
  (pc = "done" /\ "ocr" \in did) =>
     /\ DistinctKeys(localizationData[1])
     /\ Len(JsonParse(generatedFiles[2].content)) = Len(localizationData[1])
     /\ Len(JsonParse(generatedFiles[1].content)) = Len(localizationData[1])

\* the content of the generated file of that name
ContentOf(fs, name) ==
  fs[CHOOSE i \in 1..Len(fs) : fs[i].filename = name].content

\* the entries of the parsed object are exactly one per record of data,
\* with the record's key and the text that field gives
MapsRecords(obj, data, field) ==
  /\ {obj[i][1] : i \in 1..Len(obj)} = {data[i].key : i \in 1..Len(data)}
  /\ Len(obj) = Len(data)
  /\ \A i \in 1..Len(data) :
        \E n \in 1..Len(obj) : obj[n] = <<data[i].key, data[i][field]>>

\* a consolidated set: every record has an identity and no two share one
IsConsolidated(data) ==
  /\ NoSharedIdentity(data)
  /\ \A i \in 1..Len(data) : Identity(data[i]) # <<>>

RoundTrips(fs, data) ==
  /\ MapsRecords(JsonParse(ContentOf(fs, "en.json")), data, "en_text")
  /\ MapsRecords(JsonParse(ContentOf(fs, "ar.json")), data, "ar_text")

\* page requests that have been issued and have not settled
InFlight == Cardinality(Pending(results)) + orphans

\* C15: at most 5 page requests are in flight at any time, and the requests
\* of a batch are issued only when no request of an earlier batch is still in
\* flight (the step that issues them settles the last one).
C15_BatchedRequests ==
  [][/\ InFlight' <= 5
     /\ Len(results') <= 5
     /\ (batchStart' # batchStart \/ InFlight' > InFlight) =>
          /\ orphans = 0
          /\ Cardinality(Pending(results)) <= 1
          /\ Pending(results') = 1..Len(results')
          /\ batchStart' + Len(results') <= imageParts']_vars

\* C15 witness: six pages; the second batch is in flight after all five
\* requests of the first have settled
C15_Witness ==
  /\ pc = "ocrBatch"
  /\ imageParts = 6
  /\ batchStart = 5
  /\ InFlight = 1
  /\ failures = {}

\* the message has the wording the requestor treats as critical
CriticalWording(m) ==
  \/ Includes(m, <<"Rpc", "failed">>)
  \/ Bracketed5xx(m)
  \/ Includes(m, <<"API", "key">>)

\* C16: the step in which a page request fails critically fails the run at
\* once, whatever number of siblings is still in flight, without consolidation
\* or files; from then on no batch is started and no later step (a sibling
\* settling) changes the outcome of the run.
C16_FirstFatalWins ==
  [][/\ (pc = "ocrBatch" /\ \E m \in failures' \ failures : CriticalWording(m)) =>
          /\ pc' = "failed"
          /\ thrown' = Some(MsgApiFailed)
          /\ ~isLoading'
          /\ results' = <<>>
          /\ orphans' = Cardinality(Pending(results)) - 1
          /\ localizationData' = None
          /\ generatedFiles' = <<>>
     /\ (pc = "failed" /\ "ocr" \in did) =>
          /\ pc' = "failed"
          /\ UNCHANGED <<thrown, error, isLoading, generatedFiles,
                         localizationData, allTranslations, batchStart,
                         results, progressLog>>]_vars

\* C16 witness: of six pages the first request to settle failed critically;
\* its four siblings are in flight and the second batch was never started
C16_Witness ==
  /\ pc = "failed"
  /\ thrown = Some(MsgApiFailed)
  /\ imageParts = 6
  /\ batchStart = 0
  /\ orphans = 4
  /\ allTranslations = <<>>

\* C17: when the run has ended, successfully or not, no canvas created by
\* the rasterizer is left unreleased.
C17_CanvasReleased == pc \in {"done", "failed"} => canvas # "live"

WellFormed(item) ==
  item.key # Undefined /\ item.en_text # Undefined /\ item.ar_text # Undefined

\* C18: a response that is not the expected schema never contributes to the
\* files: on the direct path it fails the run; on the OCR path its page is
\* skipped, the run is not aborted and the other pages' records are used.
C18_SchemaViolation ==
  /\ ("direct" \in did /\ MsgSyntax \in failures) =>
        (pc = "failed" /\ thrown = Some(MsgInvalidResponse))
  /\ pc = "done" =>
        \A i \in 1..Len(localizationData[1]) : WellFormed(localizationData[1][i])
  /\ ("ocr" \in did /\ \A m \in failures : ~CriticalWording(m)) =>
        /\ thrown \in {None, Some(MsgNoText)}
        /\ \A i \in 1..Len(allTranslations) : WellFormed(allTranslations[i])

\* C19: on both paths alike, a request failure whose message has RPC-failure
\* wording, a bracketed 5xx code or API-key wording fails the run with the
\* critical error, surfaced as the message that asks for a new key; no other
\* failure is classified critical.
C19_SameClassification ==
  /\ (\E m \in failures : CriticalWording(m)) =>
        /\ pc = "failed"
        /\ thrown = Some(MsgApiFailed)
        /\ error = Some(MsgKeyInvalid)
        /\ ~isKeyReady
  /\ (\A m \in failures : ~CriticalWording(m)) => thrown # Some(MsgApiFailed)

\* C19 on the OCR path alone, where the catch clause tests all three wordings
C19_OcrClassification ==
  "ocr" \in did =>
     /\ (\E m \in failures : CriticalWording(m)) =>
           /\ pc = "failed"
           /\ thrown = Some(MsgApiFailed)
           /\ error = Some(MsgKeyInvalid)
           /\ ~isKeyReady
     /\ (\A m \in failures : ~CriticalWording(m)) =>
           thrown # Some(MsgApiFailed)

Terminal == pc \in {"done", "failed"}

\* C20: every run eventually ends, in Done with four files and no error or
\* in Failed with one error and no files, and stays there; while it has not
\* ended the UI is loading and a step to Failed is possible; once it has ended
\* the loading flag is false.
C20_RunTerminates ==
  /\ <>Terminal
  /\ [](Terminal => ~isLoading)
  /\ [](pc = "done" =>
         (Len(generatedFiles) = 4 /\ error = None /\ thrown = None))
  /\ [](pc = "failed" =>
         (generatedFiles = <<>> /\ Len(error) = 1 /\ thrown # None))
  /\ [](~Terminal => (isLoading /\ ENABLED (NextRun /\ pc' = "failed")))
  /\ [][Terminal => pc' = pc]_vars

\* C20 witness: a run over six pages has ended in Done after its second batch
C20_Witness ==
  /\ pc = "done"
  /\ ~isLoading
  /\ imageParts = 6
  /\ batchStart = 5
  /\ orphans = 0

\* a comes before b in the lexicographic order of the code units: at the
\* first position where they differ a has ended or has the smaller unit
Before(a, b) ==
  \E p \in 1..Len(b) :
     /\ Len(a) >= p - 1
     /\ \A q \in 1..(p - 1) : a[q] = b[q]
     /\ (Len(a) = p - 1 \/ Code(a[p]) < Code(b[p]))

\* C14: locale_keys.g.dart lists every key of the input exactly once, in
\* strictly ascending lexicographic order, whatever the order and the
\* multiplicity of the keys in the input.
C14_SortedKeys ==
  pc = "materialized" =>
     LET keys == ContentOf(generatedFiles, "locale_keys.g.dart")
     IN /\ {keys[i] : i \in 1..Len(keys)} = {arg[i].key : i \in 1..Len(arg)}
        /\ \A i, j \in 1..Len(keys) : i < j => Before(keys[i], keys[j])

\* C14 witness: three records, two with the same key, given in descending
\* order of their keys
C14_Witness ==
  /\ pc = "materialized"
  /\ arg = <<recSubmit, recSend, recArCase>>
  /\ ContentOf(generatedFiles, "locale_keys.g.dart") =
       <<recArCase.key, recSubmit.key>>

\* C13: for every consolidated set with pairwise distinct keys, en.json and
\* ar.json parse back to mappings whose keys are exactly the record keys and
\* whose values are the en_text and ar_text of the records.
C13_JsonRoundTrip ==
  (pc = "materialized" /\ IsConsolidated(arg) /\ DistinctKeys(arg)) =>
     RoundTrips(generatedFiles, arg)

\* C13 for the sets that hold no record with the key __proto__
C13_RoundTripOwnKeys ==
  (pc = "materialized" /\ IsConsolidated(arg) /\ DistinctKeys(arg)
     /\ \A i \in 1..Len(arg) : arg[i].key # ProtoName) =>
     RoundTrips(generatedFiles, arg)

\* the step in which the last request of the awaited batch returns and
\* Promise.all resolves: the orchestrator reports the next batch or the
\* consolidation
LastOfBatch ==
  /\ pc = "ocrBatch"
  /\ Cardinality(Pending(results)) = 1
  /\ progressLog' # progressLog

\* the records of the batch page after page in the order of the page index,
\* the page still awaited having returned v
InPageOrder(v) ==
  Flat([i \in 1..Len(answers) |->
          IF answers[i] = None THEN v ELSE answers[i][1]])

\* C21: whatever the order in which the requests of a batch complete, the
\* batch adds its records to the aggregated list in page-index order, and the
\* consolidated records are the first of each identity in that list.
C21_OrderIndependent ==
  [][LastOfBatch =>
       /\ \E v \in PageLists :
            /\ Len(v) = okRecords' - okRecords
            /\ allTranslations' = allTranslations \o InPageOrder(v)
       /\ pc' = "done" =>
            localizationData' =
              Some(Pick(allTranslations', FirstOf(allTranslations')))]_vars

\* C21 witness: of a batch of three pages the second and the third have
\* answered, with two records of one identity, while the first is awaited
C21_Witness ==
  /\ pc = "ocrBatch"
  /\ imageParts = 3
  /\ Pending(results) = {1}
  /\ answers = <<None, Some(<<recArOnly>>), Some(<<recSubmit>>)>>

\* the keys that the generated files mention
FileKeys(fs) ==
  LET en == JsonParse(ContentOf(fs, "en.json"))
      ar == JsonParse(ContentOf(fs, "ar.json"))
      keys == ContentOf(fs, "locale_keys.g.dart")
  IN {en[i][1] : i \in 1..Len(en)} \cup {ar[i][1] : i \in 1..Len(ar)}
       \cup {keys[i] : i \in 1..Len(keys)}

\* C22: on the OCR path a record whose en_text and ar_text are both blank is
\* not among the consolidated records and its key is in no generated file
\* (unless a kept record has the same key); and a record with blank en_text
\* is not kept when an earlier record's trimmed lower-cased en_text equals its
\* trimmed ar_text.
C22_BlankAndArOnly ==
  (pc = "done" /\ "ocr" \in did) =>
     LET all == allTranslations
         data == localizationData[1]
     IN \A j \in 1..Len(all) :
          /\ (Trim(all[j].en_text) = <<>> /\ Trim(all[j].ar_text) = <<>>) =>
                /\ ~InSeq(all[j], data)
                /\ \/ all[j].key \notin FileKeys(generatedFiles)
                   \/ \E n \in 1..Len(data) : data[n].key = all[j].key
          /\ (/\ Trim(all[j].en_text) = <<>>
              /\ \E i \in 1..(j - 1) :
                    ToLowerCase(Trim(all[i].en_text)) = Trim(all[j].ar_text)
              /\ \A i \in 1..(j - 1) : all[i] # all[j]) =>
                ~InSeq(all[j], data)

\* C22 witness: three pages answered Submit, a blank record and a record with
\* no en_text whose ar_text is " submit"; only the first is kept
C22_Witness ==
  /\ pc = "done"
  /\ allTranslations = <<recSubmit, recBlank, recArOnly>>
  /\ localizationData = Some(<<recSubmit>>)
  /\ FileKeys(generatedFiles) = {recSubmit.key}

\* a run has been started and has neither resolved nor rejected
RunInFlight == pc \notin {"idle", "done", "failed"}

\* C23: a run is started only when no run is in flight, whatever the user
\* does with the file meanwhile; while a run is in flight the UI is loading
\* and the Generate button cannot be clicked.
C23_OneRunAtATime ==
  /\ [][(pc' = "extractLoad" /\ pc # "extractLoad") => ~RunInFlight]_vars
  /\ [](RunInFlight => (isLoading /\ ~ENABLED HandleProcessClick))

\* C23 witness: during a run the file was cleared and the other one selected;
\* the run is still in flight and the UI is still loading
C23_Witness ==
  /\ RunInFlight
  /\ pc = "ocrBatch"
  /\ file # None
  /\ file[1] # runFile
  /\ isLoading

\* C24: whenever generated files are held, a file is selected and the files
\* were produced by the run on that file.
C24_FilesOfSelectedFile ==
  generatedFiles # <<>> => (file # None /\ file[1] = runFile)

\* C25: the call of handleFileSelect with a file that is no PDF ends with the
\* error 'Please upload a valid PDF file.' and no file selected, and the call
\* whose page count cannot be read ends with the error 'Could not read PDF
\* metadata.' and no file selected.
C25_RejectionKeepsError ==
  [][/\ (selectedType' = "image/png" /\ selectedType # "image/png") =>
          (error' = Some(MsgNotPdf) /\ file' = None)
     /\ (Len(metaPending') < Len(metaPending) /\ pageCount' = 0) =>
          (error' = Some(MsgNoMetadata) /\ file' = None)]_vars
====
